---- MODULE Spec2Model ----
(***************************************************************************)
(* Model of beach_dune_formatter.py: the landmark detector                  *)
(* (identify_shore / identify_crest / identify_toe / identify_heel chained  *)
(* by identify_features), measure_volume, measure_feature_volumes,          *)
(* grouped_mean, and the metric, filter and averaging stages of main.       *)
(*                                                                          *)
(* Units.  Distances x are integers.  Elevations y are integers counting    *)
(* tenths, so the code's threshold 0.6 is 6.  Volumes are integers counting *)
(* twentieths (half a tenth), so that the 1/2 of the trapezoidal rule stays *)
(* exact.  Floating-point rounding is not modelled: comparisons are the     *)
(* exact ones, and where exact arithmetic gives a tie that only rounding    *)
(* noise decides in the code (the argmin of the polynomial residuals) the   *)
(* model takes every tied outcome.                                          *)
(*                                                                          *)
(* A pandas Series is a function from positions of the profile to an        *)
(* optional number: <<v>> is the number v and <<>> is NaN.  An optional     *)
(* landmark is <<x>> or None.                                               *)
(***************************************************************************)
EXTENDS Integers, Sequences, FiniteSets

VARIABLES
    profile_xy,   \* the profile handed to identify_features: Seq of [x, y]
    pc,           \* position inside identify_features
    shore_x,      \* identify_features locals, None until (and unless) found
    crest_x,
    toe_x,
    heel_x,
    x_coord,      \* identify_toe's local x_coord (differences.idxmin())
    searches,     \* the searches identify_features has called, in order
    features,     \* identify_features' return value (None or the 8-tuple)
    vol_call,     \* the arguments of one measure_volume call
    volume,       \* its return value, None until it returns
    profiles,     \* main's table of feature coordinates, one row per profile
    feature_vols, \* the lists measure_feature_volumes returned to main
    beach_data,   \* main's 'unfiltered' table
    filtered_beach_data,  \* main's 'filtered' table
    main_pc,      \* position inside main
    xy_data,      \* main's table of samples: Seq of [state, segment, profile, x, y]
    profile_index,        \* the index of profiles and beach_data, one
                          \* [state, segment, profile] per row
    profile_spacing,      \* measure_feature_volumes' local, None until set
    averaged_beach_data   \* main's 'averages' table

detect_vars == <<profile_xy, pc, shore_x, crest_x, toe_x, heel_x, x_coord,
                 searches, features>>

volume_vars == <<vol_call, volume>>

metric_vars == <<profiles, feature_vols, beach_data, filtered_beach_data,
                 main_pc, xy_data, profile_index, profile_spacing,
                 averaged_beach_data>>

vars == <<detect_vars, volume_vars, metric_vars>>

----------------------------------------------------------------------------
(* Bounds of the model and the program's constants.                        *)

MaxHead == 5          \* longest free prefix of an enumerated profile
TailLen == 31         \* samples that follow the free prefix
MaxVolLen == 3        \* longest profile handed to measure_volume

StateId == 29             \* read_mask_csvs: STATE = np.uint8(29)
BlockSize == 10           \* grouped_mean, 10
ShoreSlopeWindow == 5     \* slope.rolling(5)
ShortWindow == 10         \* rolling(10)
LongWindow == 20          \* rolling(20)
RiseTenths == 6           \* 0.6, in tenths

----------------------------------------------------------------------------
(* pandas Series helpers.                                                  *)

None == <<>>
NaN == <<>>
Num(v) == <<v>>

Gt(a, b) == a # NaN /\ b # NaN /\ a[1] > b[1]
Ge(a, b) == a # NaN /\ b # NaN /\ a[1] >= b[1]
Minus(a, b) == IF a = NaN \/ b = NaN THEN NaN ELSE Num(a[1] - b[1])

SetMin(S) == CHOOSE m \in S : \A e \in S : m <= e
SetMax(S) == CHOOSE m \in S : \A e \in S : m >= e

\* s.rolling(w): the window of the w positions ending at j is full when all
\* of them exist and hold a number; the aggregate is NaN unless it is.
WindowFull(s, w, j) == \A k \in (j - w + 1)..j : k \in DOMAIN s /\ s[k] # NaN

WindowValues(s, w, j) == {s[k][1] : k \in (j - w + 1)..j}

\* s.rolling(w).min()
RollingMin(s, w) ==
    [j \in DOMAIN s |->
        IF WindowFull(s, w, j) THEN Num(SetMin(WindowValues(s, w, j))) ELSE NaN]

\* s.rolling(w).max()
RollingMax(s, w) ==
    [j \in DOMAIN s |->
        IF WindowFull(s, w, j) THEN Num(SetMax(WindowValues(s, w, j))) ELSE NaN]

\* s.shift(p): the value p positions earlier (later when p < 0), NaN outside.
Shift(s, p) ==
    [j \in DOMAIN s |-> IF j - p \in DOMAIN s THEN s[j - p] ELSE NaN]

\* s.expanding(min_periods=1).max(): max of the numbers up to j, NaN if none.
ExpandingMax(s) ==
    [j \in DOMAIN s |->
        LET obs == {s[k][1] : k \in {k \in DOMAIN s : k <= j /\ s[k] # NaN}}
        IN  IF obs = {} THEN NaN ELSE Num(SetMax(obs))]

\* filtered.idxmax() of a boolean Series: the first True position, and the
\* first position of all when none is True.
IdxMax(filtered) ==
    IF \E j \in DOMAIN filtered : filtered[j]
    THEN SetMin({j \in DOMAIN filtered : filtered[j]})
    ELSE SetMin(DOMAIN filtered)

\* y[kept].idxmin(): the first position of minimal value among kept.
IdxMin(y, kept) ==
    SetMin({j \in kept : \A k \in kept : y[j][1] <= y[k][1]})

\* profile_xy.loc[a:] and profile_xy.loc[a:b] on the sorted x index: the
\* positions whose label lies in the closed range.
LocFrom(prof, a) == {j \in 1..Len(prof) : prof[j].x >= a}

\* Mutant: a slice that puts reversed bounds in order first.
LocBetweenOrdered(prof, a, b) ==
    {j \in 1..Len(prof) : \/ prof[j].x >= a /\ prof[j].x <= b
                          \/ prof[j].x >= b /\ prof[j].x <= a}

LocBetween(prof, a, b) == {j \in 1..Len(prof) : prof[j].x >= a /\ prof[j].x <= b}

ColX(prof, pos) == [j \in pos |-> Num(prof[j].x)]
ColY(prof, pos) == [j \in pos |-> Num(prof[j].y)]

\* A common multiple of the gaps between consecutive x values: slopes are
\* kept as integers counting 1/SlopeUnit.
RECURSIVE SetProduct(_)
SetProduct(S) ==
    IF S = {} THEN 1
    ELSE LET e == CHOOSE e \in S : TRUE IN e * SetProduct(S \ {e})

SlopeUnit(prof) ==
    SetProduct({prof[j].x - prof[j - 1].x : j \in 2..Len(prof)})

\* (y - y.shift(1)) / (x - x.shift(1)), scaled by unit.
Quotient(dy, dx, unit) ==
    IF dy = NaN \/ dx = NaN THEN NaN ELSE Num(dy[1] * (unit \div dx[1]))

----------------------------------------------------------------------------
(* identify_shore                                                          *)

ShoreFiltered(prof) ==
    LET pos == 1..Len(prof)
        x == ColX(prof, pos)
        y == ColY(prof, pos)
        xprev == Shift(x, 1)
        yprev == Shift(y, 1)
        unit == SlopeUnit(prof)
        slope == [j \in pos |->
                     Quotient(Minus(y[j], yprev[j]), Minus(x[j], xprev[j]), unit)]
        runmax == ExpandingMax(yprev)
        minslope == Shift(RollingMin(slope, ShoreSlopeWindow),
                          -(ShoreSlopeWindow - 1))
    IN  [j \in pos |-> /\ Gt(y[j], Num(0))
                       /\ Gt(y[j], runmax[j])
                       /\ Ge(minslope[j], Num(0))]

\* lines 104-109: the test on filtered[x_coord] as the code has it.
ShoreReturn(found, x) == IF found THEN None ELSE Num(x)

identify_shore(prof) ==
    LET filtered == ShoreFiltered(prof)
        at == IdxMax(filtered)
    IN  ShoreReturn(filtered[at], prof[at].x)

----------------------------------------------------------------------------
(* identify_crest                                                          *)

CrestFiltered(prof, shore) ==
    LET pos == LocFrom(prof, shore)
        y == ColY(prof, pos)
        runmax == ExpandingMax(Shift(y, 1))
        min20 == Shift(RollingMin(y, LongWindow), -LongWindow)
        max10 == Shift(RollingMax(y, ShortWindow), -ShortWindow)
    IN  [j \in pos |-> /\ Gt(y[j], runmax[j])
                       /\ Gt(Minus(y[j], min20[j]), Num(RiseTenths))
                       /\ Gt(y[j], max10[j])]

identify_crest(prof, shore) ==
    LET filtered == CrestFiltered(prof, shore)
        at == IdxMax(filtered)
    IN  IF filtered[at] = FALSE THEN None ELSE Num(prof[at].x)

----------------------------------------------------------------------------
(* identify_heel                                                           *)

HeelFiltered(prof, crest) ==
    LET pos == LocFrom(prof, crest)
        y == ColY(prof, pos)
        min10 == Shift(RollingMin(y, ShortWindow), -ShortWindow)
        max10 == RollingMax(y, ShortWindow)
        max20 == Shift(RollingMax(y, LongWindow), -LongWindow)
    IN  [j \in pos |-> ~ (/\ Gt(Minus(y[j], min10[j]), Num(RiseTenths))
                          /\ Gt(y[j], max10[j])
                          /\ Gt(y[j], max20[j]))]

\* lines 179-184.  y[filtered].idxmin() of an empty selection raises; that
\* outcome is written "ValueError".
identify_heel(prof, crest) ==
    LET filtered == HeelFiltered(prof, crest)
        kept == {j \in DOMAIN filtered : filtered[j]}
        y == ColY(prof, DOMAIN filtered)
    IN  IF \A j \in DOMAIN filtered : filtered[j] THEN None
        ELSE IF kept = {} THEN <<"ValueError">>
        ELSE Num(prof[IdxMin(y, kept)].x)

----------------------------------------------------------------------------
(* identify_toe                                                            *)

RECURSIVE SetSum(_, _)
SetSum(f, S) ==
    IF S = {} THEN 0
    ELSE LET e == CHOOSE e \in S : TRUE IN f[e] + SetSum(f, S \ {e})

Dot(u, v) == SetSum([j \in DOMAIN u |-> u[j] * v[j]], DOMAIN u)

Abs(a) == IF a < 0 THEN -a ELSE a

RECURSIVE Gcd(_, _)
Gcd(a, b) == IF b = 0 THEN a ELSE Gcd(b, a % b)

RECURSIVE SetGcd(_)
SetGcd(S) ==
    IF S = {} THEN 0
    ELSE LET e == CHOOSE e \in S : TRUE IN Gcd(e, SetGcd(S \ {e}))

\* u divided by the (positive) gcd of its entries: same direction, small numbers.
Reduce(u) ==
    LET g == SetGcd({Abs(u[j]) : j \in DOMAIN u})
    IN  IF g = 0 THEN u ELSE [j \in DOMAIN u |-> u[j] \div g]

\* A positive multiple of v minus its orthogonal projection on u.
ProjectOut(v, u) ==
    LET n == Dot(u, u)
        d == Dot(v, u)
        g == Gcd(n, Abs(d))
    IN  IF n = 0 THEN v
        ELSE Reduce([j \in DOMAIN v |-> (n \div g) * v[j] - (d \div g) * u[j]])

\* lines 149-152: differences = y - polyval(polyfit(x, y, 3), x), the
\* least-squares residual of y against 1, x, x^2, x^3 over the subset, up to
\* a positive factor (which idxmin does not see).  The residual is y with its
\* projections on an orthogonal basis of the cubics removed; x is taken
\* relative to the subset's first sample, which leaves the residual unchanged.
Differences(prof, shore, crest) ==
    LET pos == LocBetween(prof, shore, crest)
        t == [j \in pos |-> prof[j].x - shore]
        u0 == [j \in pos |-> 1]
        u1 == ProjectOut([j \in pos |-> t[j]], u0)
        u2 == ProjectOut(ProjectOut([j \in pos |-> t[j] * t[j]], u0), u1)
        u3 == ProjectOut(ProjectOut(ProjectOut(
                  [j \in pos |-> t[j] * t[j] * t[j]], u0), u1), u2)
        y == [j \in pos |-> prof[j].y]
    IN  ProjectOut(ProjectOut(ProjectOut(ProjectOut(y, u0), u1), u2), u3)

\* line 155: the labels differences.idxmin() can return.  Where the exact
\* residuals tie, rounding decides in the code, so every tied label is possible.
ToeIdxMin(prof, shore, crest) ==
    LET diff == Differences(prof, shore, crest)
    IN  {prof[j].x : j \in {j \in DOMAIN diff :
                               \A k \in DOMAIN diff : diff[j] <= diff[k]}}

\* Mutant: only the shore end of the range is rejected.
identify_toe_shore_only(xc, shore, crest) ==
    IF xc = shore THEN None ELSE Num(xc)

\* lines 156-159
identify_toe(xc, shore, crest) ==
    IF xc = shore \/ xc = crest THEN None ELSE Num(xc)

----------------------------------------------------------------------------
(* identify_features, one search per step                                  *)

\* Mutant: the early return is missing.
ChainNoReturn(found, next) == next

\* `if <landmark> is None: ... return None`, else go on to the next search.
Chain(found, next) == IF found = None THEN "Failed" ELSE next

YAt(prof, x) == prof[CHOOSE j \in 1..Len(prof) : prof[j].x = x].y

\* lines 226-228
FeatureTuple(prof, s, t, c, h) ==
    <<s, YAt(prof, s), t, YAt(prof, t), c, YAt(prof, c), h, YAt(prof, h)>>

SeekShore ==
    /\ pc = "SeekShore"
    /\ shore_x' = identify_shore(profile_xy)
    /\ searches' = Append(searches, "shore")
    /\ pc' = Chain(shore_x', "SeekCrest")
    /\ UNCHANGED <<profile_xy, crest_x, toe_x, heel_x, x_coord, features, volume_vars,
                   metric_vars>>

SeekCrest ==
    /\ pc = "SeekCrest"
    /\ crest_x' = identify_crest(profile_xy, shore_x[1])
    /\ searches' = Append(searches, "crest")
    /\ pc' = Chain(crest_x', "SeekToe")
    /\ UNCHANGED <<profile_xy, shore_x, toe_x, heel_x, x_coord, features, volume_vars,
                   metric_vars>>

SeekToe ==
    /\ pc = "SeekToe"
    /\ \E xc \in ToeIdxMin(profile_xy, shore_x[1], crest_x[1]) :
          /\ x_coord' = Num(xc)
          /\ toe_x' = identify_toe(xc, shore_x[1], crest_x[1])
    /\ searches' = Append(searches, "toe")
    /\ pc' = Chain(toe_x', "SeekHeel")
    /\ UNCHANGED <<profile_xy, shore_x, crest_x, heel_x, features, volume_vars,
                   metric_vars>>

SeekHeel ==
    /\ pc = "SeekHeel"
    /\ heel_x' = identify_heel(profile_xy, crest_x[1])
    /\ searches' = Append(searches, "heel")
    /\ pc' = Chain(heel_x', "Done")
    /\ features' = IF heel_x' = None THEN None
                   ELSE FeatureTuple(profile_xy, shore_x[1], toe_x[1],
                                     crest_x[1], heel_x'[1])
    /\ UNCHANGED <<profile_xy, shore_x, crest_x, toe_x, x_coord, volume_vars,
                   metric_vars>>

----------------------------------------------------------------------------
(* The profiles identify_features is run on.                               *)

YVals == {-5, 5, 10, 20}
TailLevels == {0, 5}
Grids == {[x0 |-> 0, dx |-> 1], [x0 |-> 3, dx |-> 2]}

Heads == UNION {[1..n -> YVals] : n \in 1..MaxHead}

MakeProfile(g, ys) ==
    [j \in 1..Len(ys) |-> [x |-> g.x0 + (j - 1) * g.dx, y |-> ys[j]]]

\* (0,-1),(1,-0.5),(2,0.2),(3,1.0),(4,1.1),(5,3.0), rising afterwards.
ShoreExample ==
    MakeProfile([x0 |-> 0, dx |-> 1],
                <<-10, -5, 2, 10, 11, 30>> \o [i \in 1..TailLen |-> 30 + 5 * i])

\* After the free prefix the profile is level, or level with one second dune
\* ShortWindow + 1 samples into the tail (far enough from the prefix to have
\* ten samples before it, and with twenty after it).
TailOf(lvl, dune) ==
    [i \in 1..TailLen |-> IF dune /\ i = ShortWindow + 1 THEN lvl + 20 ELSE lvl]

Profiles ==
    {MakeProfile(g, h \o TailOf(lvl, dune)) :
        g \in Grids, h \in Heads, lvl \in TailLevels, dune \in BOOLEAN}
    \cup {ShoreExample}

Init ==
    /\ profile_xy \in Profiles
    /\ pc = "SeekShore"
    /\ shore_x = None
    /\ crest_x = None
    /\ toe_x = None
    /\ heel_x = None
    /\ x_coord = None
    /\ searches = <<>>
    /\ features = None
    /\ vol_call = None
    /\ volume = None
    /\ profiles = <<>>
    /\ feature_vols = <<>>
    /\ beach_data = <<>>
    /\ filtered_beach_data = <<>>
    /\ main_pc = "Idle"
    /\ xy_data = <<>>
    /\ profile_index = <<>>
    /\ profile_spacing = None
    /\ averaged_beach_data = <<>>

Next == SeekShore \/ SeekCrest \/ SeekToe \/ SeekHeel

Spec == Init /\ [][Next]_vars

----------------------------------------------------------------------------
(* Properties of the landmark detector.                                    *)

Ran(search) == \E i \in 1..Len(searches) : searches[i] = search

SearchOrder == <<"shore", "crest", "toe", "heel">>
Found == <<shore_x, crest_x, toe_x, heel_x>>

Ys(prof, S) == {prof[k].y : k \in S}

\* The shore conditions as the claim words them: positive, above every
\* earlier elevation, and the five slopes at i..i+4 exist and are >= 0.
SlopeNonNegative(prof, k) ==
    /\ k >= 2
    /\ k <= Len(prof)
    /\ (prof[k].y - prof[k - 1].y) * (prof[k].x - prof[k - 1].x) >= 0

ShoreQualifies(prof, i) ==
    /\ prof[i].y > 0
    /\ \A k \in 1..(i - 1) : prof[i].y > prof[k].y
    /\ \A k \in i..(i + 4) : SlopeNonNegative(prof, k)

FirstOrNone(prof, Q) == IF Q = {} THEN None ELSE Num(prof[SetMin(Q)].x)

\* C2: identify_shore returns the x of the first position that is positive,
\* above every earlier elevation and followed by five non-negative slopes, and
\* None exactly when there is no such position; on the profile (0,-1),
\* (1,-0.5),(2,0.2),(3,1.0),(4,1.1),(5,3.0),... it returns 2.
C2_ShoreIsFirstQualifying ==
    Ran("shore") =>
        /\ shore_x = FirstOrNone(profile_xy,
               {i \in 1..Len(profile_xy) : ShoreQualifies(profile_xy, i)})
        /\ profile_xy = ShoreExample => shore_x = Num(2)

\* C3: the searches run in the order shore, crest, toe, heel, each only after
\* the one before resolved; the first Absent ends detection in Failed with no
\* later search run and the result None; the result is None or all 8
\* coordinates.
C3_ChainedDetection ==
    /\ Len(searches) <= 4
    /\ \A i \in 1..Len(searches) : searches[i] = SearchOrder[i]
    /\ \A i \in 1..(Len(searches) - 1) : Found[i] # None
    /\ \A i \in (Len(searches) + 1)..4 : Found[i] = None
    /\ pc = "Failed" <=> (searches # <<>> /\ Found[Len(searches)] = None)
    /\ pc = "Failed" => features = None
    /\ pc = "Done" <=> (Len(searches) = 4 /\ heel_x # None)
    /\ pc = "Done" => features # None
    /\ features = None \/ Len(features) = 8
    /\ pc \notin {"Failed", "Done"} => pc = "Seek" \o
           <<"Shore", "Crest", "Toe", "Heel">>[Len(searches) + 1]

\* A detection that failed at the crest: toe and heel were never searched.
C3_Witness ==
    /\ pc = "Failed"
    /\ searches = <<"shore", "crest">>
    /\ shore_x # None
    /\ crest_x = None

\* The heel's exclusion test as the claim words it, at position i of the
\* samples pos (those from crest_x onward).
HeelExcluded(prof, pos, i) ==
    /\ (i + 1)..(i + 10) \subseteq pos
    /\ prof[i].y - SetMin(Ys(prof, (i + 1)..(i + 10))) > RiseTenths
    /\ (i - 10)..(i - 1) \subseteq pos
    /\ prof[i].y > SetMax(Ys(prof, (i - 10)..(i - 1)))
    /\ (i + 1)..(i + 20) \subseteq pos
    /\ prof[i].y > SetMax(Ys(prof, (i + 1)..(i + 20)))

\* C4: identify_heel returns the x of the lowest position among those not
\* excluded, and None exactly when every position from crest_x on is excluded.
C4_HeelIsLowestNotExcluded ==
    Ran("heel") =>
        LET pos == LocFrom(profile_xy, crest_x[1])
            kept == {i \in pos : ~HeelExcluded(profile_xy, pos, i)}
        IN  heel_x = FirstOrNone(profile_xy,
                {i \in kept : \A k \in kept : profile_xy[i].y <= profile_xy[k].y})

\* Supporting fact for C1 and C7 (an invariant of Spec): no detection reaches
\* Done.  In HeelFiltered the test y > y.rolling(10).max() compares a sample
\* with the maximum of a window that holds the sample itself, so no position is
\* ever excluded, filtered.all() is true and identify_heel returns None.
DetectionNeverCompletes == pc # "Done" /\ features = None /\ heel_x = None

\* The crest conditions as the claim words them, at position i of the samples
\* pos (those from shore_x onward).
CrestQualifies(prof, pos, i) ==
    /\ \A k \in pos : k < i => prof[i].y > prof[k].y
    /\ (i + 1)..(i + 20) \subseteq pos
    /\ prof[i].y - SetMin(Ys(prof, (i + 1)..(i + 20))) > RiseTenths
    /\ (i + 1)..(i + 10) \subseteq pos
    /\ prof[i].y > SetMax(Ys(prof, (i + 1)..(i + 10)))

\* C5: identify_crest returns the x of the first position from
\* shore_x on (inclusive) that is above every earlier elevation of the
\* sub-sequence, more than 0.6 above the minimum of the next 20 and above the
\* maximum of the next 10; None exactly when no position qualifies.
C5_CrestIsFirstQualifying ==
    Ran("crest") =>
        LET pos == LocFrom(profile_xy, shore_x[1])
        IN  crest_x = FirstOrNone(profile_xy,
                {i \in pos : CrestQualifies(profile_xy, pos, i)})

\* What identify_crest does instead (an invariant of Spec): the same, except
\* that the first sample of the sub-sequence (shore_x itself, whose running
\* maximum of earlier elevations is NaN) never qualifies.
CrestIsFirstQualifyingAfterShore ==
    Ran("crest") =>
        LET pos == LocFrom(profile_xy, shore_x[1])
        IN  crest_x = FirstOrNone(profile_xy,
                {i \in pos : /\ profile_xy[i].x > shore_x[1]
                             /\ CrestQualifies(profile_xy, pos, i)})

\* A crest was found, and it is not the first sample after shore_x that rose
\* above everything before it: an earlier one failed a window test.
CrestAfterFailedCandidate ==
    /\ Ran("crest")
    /\ crest_x # None
    /\ LET pos == LocFrom(profile_xy, shore_x[1])
       IN  \E i \in pos :
              /\ profile_xy[i].x > shore_x[1]
              /\ profile_xy[i].x < crest_x[1]
              /\ \A k \in pos : k < i => profile_xy[i].y > profile_xy[k].y

\* C6: identify_toe looks at exactly the samples with shore_x <= x <= crest_x,
\* takes the x of minimal residual, and returns None when that x is shore_x or
\* crest_x; a returned toe_x is that x and lies strictly between the two.
C6_ToeStrictlyInside ==
    Ran("toe") =>
        /\ x_coord # None
        /\ \E j \in 1..Len(profile_xy) :
              /\ profile_xy[j].x = x_coord[1]
              /\ profile_xy[j].x >= shore_x[1]
              /\ profile_xy[j].x <= crest_x[1]
        /\ toe_x = None <=> x_coord[1] \in {shore_x[1], crest_x[1]}
        /\ toe_x # None =>
              /\ toe_x = x_coord
              /\ shore_x[1] < toe_x[1]
              /\ toe_x[1] < crest_x[1]

\* A toe was returned from a range of at least five samples (so that the
\* cubic does not interpolate them).
C6_Witness ==
    /\ Ran("toe")
    /\ toe_x # None
    /\ Cardinality(LocBetween(profile_xy, shore_x[1], crest_x[1])) >= 5

----------------------------------------------------------------------------
(* measure_volume                                                          *)

\* Mutant: the base elevation is not subtracted.
SubtractBaseNot(y, base) == y

\* line 253: y -= base_elevation
SubtractBase(y, base) == [j \in DOMAIN y |-> y[j] - base]

\* np.trapz(y=y, x=x), doubled: sum(diff(x) * (y[1:] + y[:-1])), 0.0 for
\* fewer than two samples.
Trapz2(x, y) ==
    SetSum([j \in DOMAIN x |->
               IF j + 1 \in DOMAIN x
               THEN (x[j + 1] - x[j]) * (y[j + 1] + y[j])
               ELSE 0],
           DOMAIN x)

\* lines 248-258; the result counts twentieths.
measure_volume(prof, start, end, spacing, base_elevation) ==
    LET pos == LocBetween(prof, start, end)
        x == [j \in pos |-> prof[j].x]
        y == SubtractBase([j \in pos |-> prof[j].y], base_elevation)
    IN  Trapz2(x, y) * spacing

MeasureVolume ==
    /\ vol_call # None
    /\ volume = None
    /\ volume' = Num(measure_volume(vol_call.profile_xy, vol_call.start_x,
                                    vol_call.end_x, vol_call.profile_spacing,
                                    vol_call.base_elevation))
    /\ UNCHANGED <<vol_call, detect_vars, metric_vars>>

\* The calls measure_volume is checked on: short profiles on grids with gaps
\* of 1 and 10, bounds at sampled x values in either order.
VolGaps == {1, 10}
VolYVals == {0, 50, 80}
VolBases == {0, 50}
VolSpacings == {1, 2}

RECURSIVE GridFrom(_, _)
GridFrom(x0, gaps) ==
    IF gaps = <<>> THEN <<x0>>
    ELSE <<x0>> \o GridFrom(x0 + Head(gaps), Tail(gaps))

VolProfiles ==
    UNION {{[j \in 1..n |-> [x |-> GridFrom(0, gaps)[j], y |-> ys[j]]] :
               gaps \in [1..(n - 1) -> VolGaps], ys \in [1..n -> VolYVals]} :
           n \in 1..MaxVolLen}

Xs(prof) == {prof[j].x : j \in 1..Len(prof)}

InitVolume ==
    /\ \E prof \in VolProfiles, b \in VolBases, sp \in VolSpacings :
          \E a \in Xs(prof), e \in Xs(prof) :
             vol_call = [profile_xy |-> prof, start_x |-> a, end_x |-> e,
                         profile_spacing |-> sp, base_elevation |-> b]
    /\ volume = None
    /\ profile_xy = <<>>
    /\ pc = "Idle"
    /\ shore_x = None
    /\ crest_x = None
    /\ toe_x = None
    /\ heel_x = None
    /\ x_coord = None
    /\ searches = <<>>
    /\ features = None
    /\ profiles = <<>>
    /\ feature_vols = <<>>
    /\ beach_data = <<>>
    /\ filtered_beach_data = <<>>
    /\ main_pc = "Idle"
    /\ xy_data = <<>>
    /\ profile_index = <<>>
    /\ profile_spacing = None
    /\ averaged_beach_data = <<>>

NextVolume == MeasureVolume

SpecVolume == InitVolume /\ [][NextVolume]_vars

----------------------------------------------------------------------------
(* Properties of measure_volume.                                           *)

\* The claim's sum, over the consecutive samples k, k+1 that both lie in the
\* closed range, of (x_(k+1) - x_k) * ((y_k - base) + (y_(k+1) - base)),
\* which is twice the trapezoid it names.
RECURSIVE TrapezoidSum2(_, _, _, _, _)
TrapezoidSum2(prof, lo, hi, base, k) ==
    IF k >= Len(prof) THEN 0
    ELSE (IF prof[k].x >= lo /\ prof[k + 1].x <= hi
          THEN (prof[k + 1].x - prof[k].x)
                   * ((prof[k].y - base) + (prof[k + 1].y - base))
          ELSE 0)
         + TrapezoidSum2(prof, lo, hi, base, k + 1)

FlatExample == <<[x |-> 0, y |-> 50], [x |-> 10, y |-> 50]>>

\* C8: with start_x <= end_x, measure_volume is spacing times the trapezoidal
\* sum over the samples in the closed range, elevations taken relative to the
\* base; for (0,5),(10,5) with spacing 1 it is 0 for base 5 and 50 for base 0
\* (50 is 1000 twentieths).
C8_TrapezoidalVolume ==
    (volume # None /\ vol_call.start_x <= vol_call.end_x) =>
        /\ volume[1] = vol_call.profile_spacing
               * TrapezoidSum2(vol_call.profile_xy, vol_call.start_x,
                               vol_call.end_x, vol_call.base_elevation, 1)
        /\ ( /\ vol_call.profile_xy = FlatExample
             /\ vol_call.start_x = 0
             /\ vol_call.end_x = 10
             /\ vol_call.profile_spacing = 1 ) =>
               /\ vol_call.base_elevation = 50 => volume[1] = 0
               /\ vol_call.base_elevation = 0 => volume[1] = 1000

\* The flat example measured from base 0.
C8_Witness ==
    /\ volume # None
    /\ vol_call.profile_xy = FlatExample
    /\ vol_call.start_x = 0
    /\ vol_call.end_x = 10
    /\ vol_call.profile_spacing = 1
    /\ vol_call.base_elevation = 0
    /\ volume[1] = 1000

Reversed(call) ==
    measure_volume(call.profile_xy, call.end_x, call.start_x,
                   call.profile_spacing, call.base_elevation)

\* C9 as stated: for sampled a and b, measure_volume(profile, a, b, s, c) is
\* -1 times measure_volume(profile, b, a, s, c).
C9_Antisymmetric ==
    volume # None => volume[1] = -Reversed(vol_call)

\* C9 amended: with the bounds reversed (start_x > end_x) the range is empty
\* and the volume is 0, as it is for start_x = end_x; so the two orders are
\* opposite only when the volume between the bounds is itself 0.
C9_ReversedBoundsGiveZero ==
    volume # None =>
        /\ vol_call.start_x >= vol_call.end_x => volume[1] = 0
        /\ volume[1] = -Reversed(vol_call)
               <=> (volume[1] = 0 /\ Reversed(vol_call) = 0)

\* A call with reversed bounds whose forward volume is not 0.
C9_Witness ==
    /\ volume # None
    /\ vol_call.start_x > vol_call.end_x
    /\ Reversed(vol_call) # 0

----------------------------------------------------------------------------
(* main: the metric table and the plausibility filter                      *)

\* A float of a metric column is <<v>>, NaN, or the result of a division:
\* <<n, d>> with d > 0 for the quotient n/d, <<1, 0>> for +inf and <<-1, 0>>
\* for -inf.
PosInf == <<1, 0>>
NegInf == <<-1, 0>>

\* Series / Series: division by zero gives +-inf, 0/0 gives NaN, no error.
Divide(a, b) ==
    IF a = NaN \/ b = NaN THEN NaN
    ELSE IF b[1] = 0
         THEN (IF a[1] = 0 THEN NaN ELSE IF a[1] > 0 THEN PosInf ELSE NegInf)
         ELSE IF b[1] > 0 THEN <<a[1], b[1]>> ELSE <<-a[1], -b[1]>>

Lt(a, b) == a # NaN /\ b # NaN /\ a[1] < b[1]

\* lines 355-383, for the profile at position i of the table.
BeachRow(f, v, i) ==
    LET dune_height == Minus(f.crest_y, f.toe_y)
        beach_width == Minus(f.toe_x, f.shore_x)
        dune_length == Minus(f.crest_x, f.toe_x)
    IN  [profile |-> i,
         dune_height |-> dune_height,
         beach_width |-> beach_width,
         dune_toe |-> f.toe_y,
         dune_crest |-> f.crest_y,
         dune_length |-> dune_length,
         beach_slope |-> Divide(Minus(f.toe_y, f.shore_y), beach_width),
         dune_slope |-> Divide(dune_height, dune_length),
         beach_vol |-> v.beach_vol,
         dune_vol |-> v.dune_vol,
         bd_ratio |-> Divide(v.dune_vol, v.beach_vol)]

MetricColumns(row) ==
    {row.dune_height, row.beach_width, row.dune_toe, row.dune_crest,
     row.dune_length, row.beach_slope, row.dune_slope, row.beach_vol,
     row.dune_vol, row.bd_ratio}

\* lines 392-400: the boolean mask.  Elevations count tenths and volumes
\* twentieths, so 300 is 6000, 500 is 10000, 1 < dune_height < 10 is
\* 10 < . < 100 and dune_crest < 20 is . < 200.
RangeMask(row) ==
    /\ Lt(row.dune_vol, Num(6000))
    /\ Lt(row.beach_vol, Num(10000))
    /\ Gt(row.dune_height, Num(10))
    /\ Lt(row.dune_height, Num(100))
    /\ Gt(row.dune_length, Num(5))
    /\ Lt(row.dune_length, Num(25))
    /\ Lt(row.dune_crest, Num(200))
    /\ Gt(row.beach_width, Num(10))
    /\ Lt(row.beach_width, Num(60))

\* line 400: .dropna() keeps the rows none of whose columns is NaN.
DropNa(row) == NaN \notin MetricColumns(row)

FilterKeeps(row) == RangeMask(row) /\ DropNa(row)

CalcBeachData ==
    /\ main_pc = "CalcBeachData"
    /\ main_pc' = "FilterData"
    /\ beach_data' = [i \in 1..Len(profiles) |->
                         BeachRow(profiles[i], feature_vols[i], i)]
    /\ UNCHANGED <<profiles, feature_vols, filtered_beach_data, xy_data,
                   profile_index, profile_spacing, averaged_beach_data,
                   detect_vars, volume_vars>>

FilterData ==
    /\ main_pc = "FilterData"
    /\ main_pc' = "Filtered"
    /\ filtered_beach_data' = SelectSeq(beach_data, FilterKeeps)
    /\ UNCHANGED <<profiles, feature_vols, beach_data, xy_data,
                   profile_index, profile_spacing, averaged_beach_data,
                   detect_vars, volume_vars>>

\* The tables the stage is run on: a probe row whose landmarks and volumes
\* straddle every threshold of the filter, alone or followed by one fixed row.
FeatureRow(tx, dl, ty, dh) ==
    [shore_x |-> Num(0), shore_y |-> Num(5),
     toe_x |-> Num(tx), toe_y |-> Num(ty),
     crest_x |-> Num(tx + dl), crest_y |-> Num(ty + dh),
     heel_x |-> Num(tx + dl + 1), heel_y |-> Num(0)]

ProbeFeatures ==
    {FeatureRow(tx, dl, ty, dh) :
        tx \in {10, 11, 60}, dl \in {5, 6, 25}, ty \in {10, 195},
        dh \in {5, 10, 11, 100}}

ProbeVols ==
    [beach_vol : {Num(0), Num(100), Num(10000)},
     dune_vol : {Num(-100), Num(0), Num(100), Num(6000)}]

FollowingRows ==
    {<<>>,
     <<[f |-> FeatureRow(30, 10, 20, 30),
        v |-> [beach_vol |-> Num(2000), dune_vol |-> Num(1000)]]>>,
     <<[f |-> FeatureRow(30, 10, 20, 5),
        v |-> [beach_vol |-> Num(2000), dune_vol |-> Num(1000)]]>>}

InitFilter ==
    /\ \E f \in ProbeFeatures, v \in ProbeVols, rest \in FollowingRows :
          LET table == <<[f |-> f, v |-> v]>> \o rest
          IN  /\ profiles = [i \in 1..Len(table) |-> table[i].f]
              /\ feature_vols = [i \in 1..Len(table) |-> table[i].v]
              /\ profile_index = [i \in 1..Len(table) |->
                                     [state |-> StateId, segment |-> 1,
                                      profile |-> i]]
    /\ xy_data = <<>>
    /\ profile_spacing = None
    /\ averaged_beach_data = <<>>
    /\ beach_data = <<>>
    /\ filtered_beach_data = <<>>
    /\ main_pc = "CalcBeachData"
    /\ vol_call = None
    /\ volume = None
    /\ profile_xy = <<>>
    /\ pc = "Idle"
    /\ shore_x = None
    /\ crest_x = None
    /\ toe_x = None
    /\ heel_x = None
    /\ x_coord = None
    /\ searches = <<>>
    /\ features = None

NextFilter == CalcBeachData \/ FilterData

SpecFilter == InitFilter /\ [][NextFilter]_vars

----------------------------------------------------------------------------
(* Properties of the plausibility filter.                                  *)

InRange(row) ==
    /\ row.dune_vol # NaN /\ row.dune_vol[1] < 6000
    /\ row.beach_vol # NaN /\ row.beach_vol[1] < 10000
    /\ row.dune_height # NaN
    /\ 10 < row.dune_height[1] /\ row.dune_height[1] < 100
    /\ row.dune_length # NaN
    /\ 5 < row.dune_length[1] /\ row.dune_length[1] < 25
    /\ row.dune_crest # NaN /\ row.dune_crest[1] < 200
    /\ row.beach_width # NaN
    /\ 10 < row.beach_width[1] /\ row.beach_width[1] < 60

Missing(v) == v = NaN
Infinite(v) == v = PosInf \/ v = NegInf

InRangeAndFinite(row) ==
    /\ InRange(row)
    /\ \A v \in MetricColumns(row) : ~Missing(v) /\ ~Infinite(v)

InRangeAndNotMissing(row) ==
    /\ InRange(row)
    /\ \A v \in MetricColumns(row) : ~Missing(v)

KeepsInRangeNotMissingRows ==
    main_pc = "Filtered" =>
        /\ filtered_beach_data = SelectSeq(beach_data, InRangeAndNotMissing)
        /\ \A i \in 1..Len(filtered_beach_data) :
              filtered_beach_data[i].dune_height # Num(5)

\* The filter ran on a table holding an in-range row it dropped for a NaN
\* bd_ratio.
NaNRowDropped ==
    /\ main_pc = "Filtered"
    /\ \E i \in 1..Len(beach_data) :
          /\ InRange(beach_data[i])
          /\ beach_data[i].bd_ratio = NaN
          /\ \A k \in 1..Len(filtered_beach_data) :
                filtered_beach_data[k].profile # i

\* An in-range row with an infinite bd_ratio that the filter kept.
InfiniteRowKept ==
    /\ main_pc = "Filtered"
    /\ \E k \in 1..Len(filtered_beach_data) :
          Infinite(filtered_beach_data[k].bd_ratio)

----------------------------------------------------------------------------
(* grouped_mean and main's averaging stage                                 *)

MetricNames ==
    {"dune_height", "beach_width", "dune_toe", "dune_crest", "dune_length",
     "beach_slope", "dune_slope", "beach_vol", "dune_vol", "bd_ratio"}

\* A float as a quotient: <<v>> is v/1.
Ratio(v) == IF Len(v) = 1 THEN <<v[1], 1>> ELSE v

Normal(n, d) == LET g == Gcd(Abs(n), d) IN <<n \div g, d \div g>>

RatioAdd(p, q) == Normal(p[1] * q[2] + q[1] * p[2], p[2] * q[2])

RECURSIVE RatioSum(_, _)
RatioSum(col, P) ==
    IF P = {} THEN <<0, 1>>
    ELSE LET k == CHOOSE k \in P : TRUE
         IN  RatioAdd(Ratio(col[k]), RatioSum(col, P \ {k}))

\* GroupBy.mean() of one column over the rows P of one group: NaN values are
\* skipped, the mean of no value is NaN, and an infinite value makes the sum
\* (and the mean) infinite, or NaN when both signs occur.
GroupMean(col, P) ==
    LET obs == {k \in P : col[k] # NaN}
        finite == {k \in obs : Ratio(col[k])[2] # 0}
        sum == RatioSum(col, finite)
    IN  IF obs = {} THEN NaN
        ELSE IF \E k \in obs : col[k] = PosInf
             THEN (IF \E k \in obs : col[k] = NegInf THEN NaN ELSE PosInf)
        ELSE IF \E k \in obs : col[k] = NegInf THEN NegInf
        ELSE Normal(sum[1], sum[2] * Cardinality(obs))

\* Mutant: the row number modulo n instead of the floor division.
BlockKeyModulo(k, n) == (k - 1) % n

\* np.arange(len(profiles)) // n, for the row at position k (counted from 1).
BlockKey(k, n) == (k - 1) \div n

\* line 189: one output row per key, in increasing key order, holding the
\* mean of every column over the rows of that key.
grouped_mean(rows, n) ==
    LET keys == {BlockKey(k, n) : k \in 1..Len(rows)}
    IN  [b \in 1..Cardinality(keys) |->
            LET P == {k \in 1..Len(rows) : BlockKey(k, n) = b - 1}
            IN  [block |-> b - 1,
                 mean |-> [c \in MetricNames |->
                              GroupMean([k \in P |-> rows[k][c]], P)]]]

GroupKeyOf(ix) == <<ix.state, ix.segment>>

KeyLe(a, b) == a[1] < b[1] \/ (a[1] = b[1] /\ a[2] <= b[2])

\* table.groupby(["state", "segment"]).apply(grouped_mean, n): the groups in
\* sorted key order, each holding its rows in their order in the table.
RECURSIVE GroupByApply(_, _, _, _)
GroupByApply(index, table, keys, n) ==
    IF keys = {} THEN <<>>
    ELSE LET key == CHOOSE a \in keys : \A b \in keys : KeyLe(a, b)
             InGroup(row) == GroupKeyOf(index[row.profile]) = key
             means == grouped_mean(SelectSeq(table, InGroup), n)
         IN  [b \in 1..Len(means) |->
                 [state |-> key[1], segment |-> key[2],
                  block |-> means[b].block, mean |-> means[b].mean]]
             \o GroupByApply(index, table, keys \ {key}, n)

\* line 410
AverageData ==
    /\ main_pc = "Filtered"
    /\ main_pc' = "Averaged"
    /\ averaged_beach_data' =
           GroupByApply(profile_index, beach_data,
                        {GroupKeyOf(profile_index[i]) :
                            i \in 1..Len(profile_index)},
                        BlockSize)
    /\ UNCHANGED <<profiles, feature_vols, beach_data, filtered_beach_data,
                   xy_data, profile_index, profile_spacing, detect_vars,
                   volume_vars>>

\* The tables the stage is run on: segment 1 with 1..MaxGroupLen profiles,
\* followed by segment 2 with 0..MaxGroupLen profiles, in index order.  The
\* rows are all alike or vary with their position, and one chosen row has
\* beach_vol = 0 (an infinite bd_ratio, or a NaN one when dune_vol = 0 too).
MaxGroupLen == 21

AverageSeeds ==
    [vary : {0, 1}, zero_at : {0, 1, 10, 11}, both_zero : BOOLEAN]

AverageFeatures(seed, k) ==
    FeatureRow(11 + (k % 3) * seed.vary, 6 + (k % 2) * seed.vary,
               10 + k * seed.vary, 11 + (k % 4) * seed.vary)

AverageVols(seed, k) ==
    [beach_vol |-> IF k = seed.zero_at THEN Num(0)
                   ELSE Num(100 + 10 * (k % 3) * seed.vary),
     dune_vol |-> IF k = seed.zero_at /\ seed.both_zero THEN Num(0)
                  ELSE Num(50 + k * seed.vary)]

InitAverage ==
    /\ \E n1 \in 1..MaxGroupLen, n2 \in 0..MaxGroupLen, seed \in AverageSeeds :
          /\ profile_index =
                 [i \in 1..(n1 + n2) |->
                     [state |-> StateId,
                      segment |-> IF i <= n1 THEN 1 ELSE 2,
                      profile |-> IF i <= n1 THEN i ELSE i - n1]]
          /\ profiles = [i \in 1..(n1 + n2) |-> AverageFeatures(seed, i)]
          /\ feature_vols = [i \in 1..(n1 + n2) |-> AverageVols(seed, i)]
    /\ beach_data = <<>>
    /\ filtered_beach_data = <<>>
    /\ averaged_beach_data = <<>>
    /\ main_pc = "CalcBeachData"
    /\ xy_data = <<>>
    /\ profile_spacing = None
    /\ vol_call = None
    /\ volume = None
    /\ profile_xy = <<>>
    /\ pc = "Idle"
    /\ shore_x = None
    /\ crest_x = None
    /\ toe_x = None
    /\ heel_x = None
    /\ x_coord = None
    /\ searches = <<>>
    /\ features = None

NextAverage == CalcBeachData \/ FilterData \/ AverageData

SpecAverage == InitAverage /\ [][NextAverage]_vars

----------------------------------------------------------------------------
(* Properties of the averaging stage.                                      *)

\* Two floats hold the same value.
SameValue(a, b) ==
    IF a = NaN \/ b = NaN THEN a = NaN /\ b = NaN
    ELSE LET p == Ratio(a)
             q == Ratio(b)
         IN  IF p[2] = 0 \/ q[2] = 0 THEN p[2] = 0 /\ q[2] = 0 /\ p[1] = q[1]
             ELSE Normal(p[1], p[2]) = Normal(q[1], q[2])

\* The rows of beach_data that belong to segment seg, in table order.
RowsOfSegment(seg) ==
    LET InSegment(row) == profile_index[row.profile].segment = seg
    IN  SelectSeq(beach_data, InSegment)

OutputOfSegment(seg) ==
    LET InSegment(out) == out.segment = seg
    IN  SelectSeq(averaged_beach_data, InSegment)

\* Sum of the finite values vals[lo..hi], left to right.
RECURSIVE SumFromTo(_, _, _)
SumFromTo(vals, lo, hi) ==
    IF lo > hi THEN <<0, 1>>
    ELSE RatioAdd(SumFromTo(vals, lo, hi - 1), Ratio(vals[hi]))

\* The arithmetic mean of all of vals: the sum over the count, which is NaN
\* as soon as one value is NaN (or infinities of both signs occur).
MeanOfAll(vals) ==
    LET idx == 1..Len(vals)
        fin == SelectSeq(vals, LAMBDA v : v # NaN /\ Ratio(v)[2] # 0)
        sum == SumFromTo(fin, 1, Len(fin))
    IN  IF \E i \in idx : vals[i] = NaN THEN NaN
        ELSE IF \E i \in idx : vals[i] = PosInf
             THEN (IF \E i \in idx : vals[i] = NegInf THEN NaN ELSE PosInf)
        ELSE IF \E i \in idx : vals[i] = NegInf THEN NegInf
        ELSE Normal(sum[1], sum[2] * Len(vals))

\* The arithmetic mean of the values of vals that are not NaN; NaN if none is.
MeanOfPresent(vals) ==
    LET present == SelectSeq(vals, LAMBDA v : v # NaN)
    IN  IF present = <<>> THEN NaN ELSE MeanOfAll(present)

\* Segment seg's rows are cut, in order, into blocks of BlockSize with a
\* shorter last block, output row b + 1 of the segment is block b, and its
\* every column is BlockMean of that column over the rows of the block.
BlocksAveraged(seg, BlockMean(_)) ==
    LET rows == RowsOfSegment(seg)
        n == Len(rows)
        out == OutputOfSegment(seg)
    IN  /\ Len(out) = (n + BlockSize - 1) \div BlockSize
        /\ \A b \in 1..Len(out) :
              LET lo == (b - 1) * BlockSize + 1
                  hi == IF b * BlockSize < n THEN b * BlockSize ELSE n
              IN  /\ out[b].block = b - 1
                  /\ out[b].state = StateId
                  /\ hi - lo + 1 = (IF b * BlockSize <= n THEN BlockSize
                                    ELSE n % BlockSize)
                  /\ \A c \in MetricNames :
                        SameValue(out[b].mean[c],
                                  BlockMean([i \in 1..(hi - lo + 1) |->
                                                rows[lo + i - 1][c]]))

\* A group of BlockSize identical records gives one block equal to the record.
IdenticalRecordsKept(seg) ==
    LET rows == RowsOfSegment(seg)
        out == OutputOfSegment(seg)
    IN  ( /\ Len(rows) = BlockSize
          /\ \A i \in 1..Len(rows) : \A c \in MetricNames :
                rows[i][c] = rows[1][c] ) =>
            /\ Len(out) = 1
            /\ \A c \in MetricNames : SameValue(out[1].mean[c], rows[1][c])

Segments == {profile_index[i].segment : i \in 1..Len(profile_index)}

\* The output holds the segments' blocks one segment after the other.
OutputGroupedBySegment ==
    /\ \A k \in 1..Len(averaged_beach_data) :
          averaged_beach_data[k].segment \in Segments
    /\ \A k \in 1..(Len(averaged_beach_data) - 1) :
          averaged_beach_data[k].segment <= averaged_beach_data[k + 1].segment

\* C11: within each (state, segment) group the rows are cut, in their order,
\* into consecutive blocks of exactly 10 rows with one last block of n mod 10
\* rows; each output row is the column-wise arithmetic mean of all rows of its
\* block; no block spans two groups; 10 identical records average to the
\* record itself.
C11_BlockMeansOfAllRows ==
    main_pc = "Averaged" =>
        /\ OutputGroupedBySegment
        /\ \A seg \in Segments :
              /\ BlocksAveraged(seg, MeanOfAll)
              /\ IdenticalRecordsKept(seg)

\* C11 amended: the same, with each output value the arithmetic mean of the
\* values of its column that are not NaN in the block (NaN when all of them
\* are): a missing value is left out of the mean, not averaged in.
C11_BlockMeansOfPresentValues ==
    main_pc = "Averaged" =>
        /\ OutputGroupedBySegment
        /\ \A seg \in Segments :
              /\ BlocksAveraged(seg, MeanOfPresent)
              /\ IdenticalRecordsKept(seg)

\* Averaged: two segments, the first with a full block and a shorter last
\* one that holds a NaN bd_ratio among other values, the second shorter than
\* a block.
C11_Witness ==
    /\ main_pc = "Averaged"
    /\ Len(RowsOfSegment(1)) > BlockSize
    /\ Len(RowsOfSegment(1)) % BlockSize > 1
    /\ Len(RowsOfSegment(2)) \in 1..(BlockSize - 1)
    /\ \E i \in (BlockSize + 1)..Len(RowsOfSegment(1)) :
          RowsOfSegment(1)[i].bd_ratio = NaN
    /\ OutputOfSegment(1)[2].mean.bd_ratio # NaN

----------------------------------------------------------------------------
(* measure_feature_volumes and main's calls of it                          *)

IdentityOf(row) == <<row.state, row.segment, row.profile>>

IdLe(a, b) ==
    \/ a[1] < b[1]
    \/ a[1] = b[1] /\ a[2] < b[2]
    \/ a[1] = b[1] /\ a[2] = b[2] /\ a[3] <= b[3]

Identities(xy) == {IdentityOf(xy[i]) : i \in 1..Len(xy)}

\* groupby(["state", "segment", "profile"]) iterates its keys in sorted order.
RECURSIVE GroupKeys(_, _)
GroupKeys(xy, ids) ==
    IF ids = {} THEN <<>>
    ELSE LET a == CHOOSE a \in ids : \A b \in ids : IdLe(a, b)
         IN  <<a>> \o GroupKeys(xy, ids \ {a})

\* The group of one key: its rows of xy_data in their order there.
GroupXY(xy, id) ==
    LET OfId(row) == IdentityOf(row) = id
        sel == SelectSeq(xy, OfId)
    IN  [j \in 1..Len(sel) |-> [x |-> sel[j].x, y |-> sel[j].y]]

\* The first row of the first identity that differs from the first row's.
NextProfileRow(xy) ==
    CHOOSE i \in 1..Len(xy) :
        /\ IdentityOf(xy[i]) # IdentityOf(xy[1])
        /\ \A j \in 1..(i - 1) : IdentityOf(xy[j]) = IdentityOf(xy[1])

\* Mutant: the gap between the first x of the first two profiles.
SpacingOfOrigins(xy) == xy[NextProfileRow(xy)].x - xy[1].x

\* line 284: xy_data["x"].iat[1] - xy_data["x"].iat[0]
SpacingOf(xy) == xy[2].x - xy[1].x

MinLen(a, b) == IF Len(a) <= Len(b) THEN Len(a) ELSE Len(b)

\* lines 284-293: zip pairs the k-th group with the k-th start, end and base.
measure_feature_volumes(xy, start_values, end_values, base_elevations) ==
    LET spacing == SpacingOf(xy)
        grouped_xy == GroupKeys(xy, Identities(xy))
        n == MinLen(grouped_xy,
                    [k \in 1..MinLen(start_values,
                        [j \in 1..MinLen(end_values, base_elevations) |-> j])
                     |-> k])
    IN  [k \in 1..n |->
            measure_volume(GroupXY(xy, grouped_xy[k]), start_values[k],
                           end_values[k], spacing, base_elevations[k])]

Column(table, c) == [k \in 1..Len(table) |-> table[k][c][1]]

\* lines 371-381: beach_vol from shore to toe above shore_y, dune_vol from toe
\* to crest above toe_y.
MeasureFeatureVolumes ==
    /\ main_pc = "MeasureFeatureVolumes"
    /\ main_pc' = "CalcBeachData"
    /\ profile_spacing' = Num(SpacingOf(xy_data))
    /\ LET beach == measure_feature_volumes(xy_data,
                        Column(profiles, "shore_x"), Column(profiles, "toe_x"),
                        Column(profiles, "shore_y"))
           dune == measure_feature_volumes(xy_data,
                        Column(profiles, "toe_x"), Column(profiles, "crest_x"),
                        Column(profiles, "toe_y"))
       IN  feature_vols' = [k \in 1..Len(profiles) |->
                               [beach_vol |-> Num(beach[k]),
                                dune_vol |-> Num(dune[k])]]
    /\ UNCHANGED <<profiles, beach_data, filtered_beach_data, xy_data,
                   profile_index, averaged_beach_data, detect_vars,
                   volume_vars>>

\* line 344: the 8-tuple of one profile as a row of the profiles table.
FeatureColumns(t) ==
    [shore_x |-> Num(t[1]), shore_y |-> Num(t[2]),
     toe_x |-> Num(t[3]), toe_y |-> Num(t[4]),
     crest_x |-> Num(t[5]), crest_y |-> Num(t[6]),
     heel_x |-> Num(t[7]), heel_y |-> Num(t[8])]

\* The datasets the stage is run on: two or three profiles of
\* SamplesPerProfile samples each, in one or two segments, on a grid of gap dx
\* with the profiles' first x all 0 or staggered, every profile with its own
\* elevations.  The rows of xy_data are in identity order, in reverse identity
\* order (the files read in another order), or interleaved sample by sample.
\* The profiles table holds one row per identity, in key order, with the
\* landmarks at sampled positions shore < toe < crest < heel.
SamplesPerProfile == 5

DatasetIds ==
    {<<<<StateId, 1, 1>>, <<StateId, 1, 2>>>>,
     <<<<StateId, 1, 1>>, <<StateId, 2, 1>>>>,
     <<<<StateId, 1, 1>>, <<StateId, 1, 2>>, <<StateId, 2, 1>>>>}

DatasetShapes ==
    [dx : {1, 2}, stagger : {0, 3}, shape : {1, 3},
     order : {"sorted", "reversed", "interleaved"},
     toe : {2, 3}, crest : {4}]
    \cup [dx : {1, 2}, stagger : {0, 3}, shape : {1, 3},
          order : {"sorted", "reversed", "interleaved"},
          toe : {2}, crest : {3}]

SampleRow(ids, d, p, j) ==
    [state |-> ids[p][1], segment |-> ids[p][2], profile |-> ids[p][3],
     x |-> (p - 1) * d.stagger + (j - 1) * d.dx,
     y |-> 10 * ((j * (d.shape + ids[p][3] + ids[p][2])) % 4)
              + 5 * ids[p][2]]

\* Row r of the dataset: which profile p and which sample j it is.
DatasetRow(ids, d, r) ==
    LET np == Len(ids)
    IN  CASE d.order = "sorted" ->
                 SampleRow(ids, d, ((r - 1) \div SamplesPerProfile) + 1,
                           ((r - 1) % SamplesPerProfile) + 1)
          [] d.order = "reversed" ->
                 SampleRow(ids, d, np - ((r - 1) \div SamplesPerProfile),
                           ((r - 1) % SamplesPerProfile) + 1)
          [] d.order = "interleaved" ->
                 SampleRow(ids, d, ((r - 1) % np) + 1, ((r - 1) \div np) + 1)

InitFeatureVolumes ==
    /\ \E ids \in DatasetIds, d \in DatasetShapes :
          /\ xy_data = [r \in 1..(Len(ids) * SamplesPerProfile) |->
                           DatasetRow(ids, d, r)]
          /\ profile_index = [p \in 1..Len(ids) |->
                                 [state |-> ids[p][1], segment |-> ids[p][2],
                                  profile |-> ids[p][3]]]
          /\ profiles =
                 [p \in 1..Len(ids) |->
                     LET prof == [j \in 1..SamplesPerProfile |->
                                     [x |-> SampleRow(ids, d, p, j).x,
                                      y |-> SampleRow(ids, d, p, j).y]]
                     IN  FeatureColumns(
                             FeatureTuple(prof, prof[1].x, prof[d.toe].x,
                                          prof[d.crest].x,
                                          prof[SamplesPerProfile].x))]
    /\ feature_vols = <<>>
    /\ profile_spacing = None
    /\ beach_data = <<>>
    /\ filtered_beach_data = <<>>
    /\ averaged_beach_data = <<>>
    /\ main_pc = "MeasureFeatureVolumes"
    /\ vol_call = None
    /\ volume = None
    /\ profile_xy = <<>>
    /\ pc = "Idle"
    /\ shore_x = None
    /\ crest_x = None
    /\ toe_x = None
    /\ heel_x = None
    /\ x_coord = None
    /\ searches = <<>>
    /\ features = None

NextFeatureVolumes == MeasureFeatureVolumes \/ CalcBeachData

SpecFeatureVolumes == InitFeatureVolumes /\ [][NextFeatureVolumes]_vars

----------------------------------------------------------------------------
(* Properties of measure_feature_volumes.                                  *)

\* The rows S of xy as samples, in increasing x.
RECURSIVE SortedByX(_, _)
SortedByX(xy, S) ==
    IF S = {} THEN <<>>
    ELSE LET i == CHOOSE i \in S : \A j \in S : xy[i].x <= xy[j].x
         IN  <<[x |-> xy[i].x, y |-> xy[i].y]>> \o SortedByX(xy, S \ {i})

\* The samples of one identity, in increasing x.
SamplesOf(xy, id) ==
    SortedByX(xy, {i \in 1..Len(xy) : IdentityOf(xy[i]) = id})

\* The x-origin (first sampled x) of an identity.
OriginOf(xy, id) == SamplesOf(xy, id)[1].x

\* The identity of the first profile of the dataset and of the next distinct
\* one, in the order of the rows.
FirstProfile(xy) == IdentityOf(xy[1])

SecondProfile(xy) ==
    LET i == CHOOSE i \in 1..Len(xy) :
                 /\ IdentityOf(xy[i]) # FirstProfile(xy)
                 /\ \A j \in 1..(i - 1) : IdentityOf(xy[j]) = FirstProfile(xy)
    IN  IdentityOf(xy[i])

Measured == main_pc \in {"CalcBeachData", "FilterData"}

\* Row k's volume between landmarks from and to above base is spacing times
\* the trapezoid sum over identity id's own samples.
VolumeFrom(id, k, spacing, from, to, base) ==
    spacing * TrapezoidSum2(SamplesOf(xy_data, id), profiles[k][from][1],
                            profiles[k][to][1], profiles[k][base][1], 1)

\* Every volume is measured with the one spacing sp.
AllVolumesUse(sp) ==
    /\ Len(feature_vols) = Len(profile_index)
    /\ \A k \in 1..Len(feature_vols) :
          LET id == IdentityOf(profile_index[k])
          IN  /\ feature_vols[k].beach_vol
                     = Num(VolumeFrom(id, k, sp, "shore_x", "toe_x", "shore_y"))
              /\ feature_vols[k].dune_vol
                     = Num(VolumeFrom(id, k, sp, "toe_x", "crest_x", "toe_y"))

\* C12: the spacing used by every volume computation is the gap between the
\* x-origins of the first two consecutive distinct profiles of the dataset,
\* not the distance between two consecutive samples of one profile.
C12_SpacingIsOriginGap ==
    Measured =>
        /\ profile_spacing = Num(OriginOf(xy_data, SecondProfile(xy_data))
                                 - OriginOf(xy_data, FirstProfile(xy_data)))
        /\ AllVolumesUse(profile_spacing[1])

\* C12 amended: the spacing used by every volume computation is the x of the
\* dataset's second row minus the x of its first row.  When these two rows
\* belong to one profile (the usual layout) that is the distance between the
\* profile's first two samples; it is the gap between the x-origins of the
\* first two profiles only when the second row already starts the next
\* profile.
C12_SpacingIsFirstRowGap ==
    Measured =>
        LET first == FirstProfile(xy_data)
            mine == SamplesOf(xy_data, first)
        IN  /\ IdentityOf(xy_data[2]) = first =>
                  profile_spacing = Num(mine[2].x - mine[1].x)
            /\ IdentityOf(xy_data[2]) # first =>
                  profile_spacing
                      = Num(OriginOf(xy_data, SecondProfile(xy_data))
                            - OriginOf(xy_data, first))
            /\ AllVolumesUse(profile_spacing[1])

\* Volumes measured on a dataset in identity order whose profiles all start at
\* the same x: the spacing is the sample gap, and no volume is 0.
C12_Witness ==
    /\ Measured
    /\ IdentityOf(xy_data[2]) = FirstProfile(xy_data)
    /\ OriginOf(xy_data, SecondProfile(xy_data))
           = OriginOf(xy_data, FirstProfile(xy_data))
    /\ profile_spacing = Num(2)
    /\ \A k \in 1..Len(feature_vols) :
          feature_vols[k].beach_vol # Num(0) /\ feature_vols[k].dune_vol # Num(0)

\* For tables that hold one row per profile of the dataset (an invariant of
\* SpecFeatureVolumes): the k-th volumes are measured on the samples of the
\* identity of the k-th landmark row, whatever the order of the rows of
\* xy_data, and are stored in that identity's row of beach_data.
VolumesPairedByIdentity ==
    /\ Measured => AllVolumesUse(profile_spacing[1])
    /\ main_pc = "FilterData" =>
          /\ Len(beach_data) = Len(profile_index)
          /\ \A k \in 1..Len(beach_data) :
                /\ beach_data[k].profile = k
                /\ beach_data[k].beach_vol = feature_vols[k].beach_vol
                /\ beach_data[k].dune_vol = feature_vols[k].dune_vol

\* Volumes stored for a dataset whose rows are not in identity order and
\* whose profiles' volumes differ.
PairedOutOfOrder ==
    /\ main_pc = "FilterData"
    /\ \E i \in 1..(Len(xy_data) - 1) :
          ~IdLe(IdentityOf(xy_data[i]), IdentityOf(xy_data[i + 1]))
    /\ beach_data[1].dune_vol # beach_data[2].dune_vol

====
